---- MODULE Spec2Model ----
(***************************************************************************)
(* Model of the reservation run: run() and its top-level catch handler     *)
(* (the main script) and clickReserveAndFinish (src/utils.js).             *)
(* Time is the wall clock Date.now() in milliseconds, relative to the      *)
(* instant the process starts.                                             *)
(***************************************************************************)
EXTENDS Integers, Sequences, FiniteSets, TLC

VARIABLES
    \* configuration, fixed for the run
    emailSet,          \* EMAIL is a non-empty string
    passwordSet,       \* PASSWORD is a non-empty string
    useWaitUntilOpen,  \* USE_WAIT_UNTIL_OPEN
    openAt,            \* openAt.getTime()
    \* the planner: the module-level code that computes the session window
    now,               \* new Date() when the module is loaded
    targetWeekday,     \* TARGET_WEEKDAY
    openTime,          \* OPEN_TIME
    base,              \* local of computeTargetClassDate: now + 7 days
    classDate,         \* const classDate
    openAtDate,        \* const openAt, as a Date
    openAgain,         \* the result of a second computeOpenTimeForClass call
    \* a call of cardMatches
    matchText,
    matchCriteria,
    matchResult,       \* cardMatches(matchText, matchCriteria)
    matchReversed,     \* cardMatches(matchText, the criteria in reverse order)
    \* program state
    pc,                \* the statement run() / clickReserveAndFinish is at
    clock,             \* Date.now()
    browser,           \* "none", "open" (launched), "closed" (browser.close() called)
    error,             \* the error thrown and not yet handled, or "none"
    errorFrom,         \* the statement that threw it
    exitCode,          \* process.exitCode (unset reads as 0)
    msToOpen,          \* local of the open wait
    dayCount,          \* local: number of day columns, -1 before it is assigned
    cardCount,         \* local: number of cards in the target column, -1 before
    cardIdx,           \* local: loop index i of the card scan
    targetCard,        \* local: index of the matched card + 1, 0 for null
    start,             \* local of clickReserveAndFinish: Date.now() at entry
    \* observation of the run
    outcome,           \* "none", "Reserved", "Waitlisted", "TimedOut"
    surfaceTouched,    \* a call on the page was made
    readySleeps,       \* sleep() calls of the ready wait
    openSleeps,        \* sleep() calls of the open wait
    openSpins,         \* iterations of the busy wait
    msToReady,         \* const msToReady of the ready wait
    readySleepMs,      \* the argument of the ready wait's sleep(), -1 before it
    openSleepMs,       \* the argument of the open wait's sleep(), -1 before it
    dayLookups,        \* days.count() calls
    cardLookups,       \* cards.count() calls
    attempts,          \* entries into clickReserveAndFinish
    firstProbeAt,      \* clock when the first reserve probe was issued
    polls,             \* reserve probes issued
    iterStartElapsed,  \* Date.now() - start at the last loop test that passed
    lastReserve,       \* result of the last reserve probe
    lastWaitlist,      \* result of the last waitlist probe
    everVisible,       \* a probe has returned visible
    retrySleeps,       \* sleep(RESERVE_RETRY_MS) calls
    reloads,           \* page.reload() calls
    reserveShown,      \* the page showed the reserve control to this iteration's probes
    waitlistShown,     \* the page showed the waitlist indicator to this iteration's probes
    lastReload,        \* result of the last page.reload()
    reserveClicks,     \* reserveBtn.click() calls
    finishClicks,      \* finishBtn.click() calls
    finishSeen,        \* finishBtn.waitFor resolved (visible)
    finishTimedOut     \* finishBtn.waitFor rejected (timeout)

plan == <<now, targetWeekday, openTime, base, classDate, openAtDate, openAgain>>
matchVars == <<matchText, matchCriteria, matchResult, matchReversed>>
cfg == <<emailSet, passwordSet, useWaitUntilOpen, openAt, plan, matchVars>>
locals == <<msToOpen, dayCount, cardCount, cardIdx, targetCard, start>>
waitObs == <<readySleeps, openSleeps, openSpins, msToReady, readySleepMs, openSleepMs>>
lookupObs == <<dayLookups, cardLookups>>
pageShows == <<reserveShown, waitlistShown>>
pollObs == <<attempts, firstProbeAt, polls, iterStartElapsed, lastReserve,
             lastWaitlist, everVisible, retrySleeps, reloads, lastReload, pageShows>>
clickObs == <<reserveClicks, finishClicks, finishSeen, finishTimedOut>>
env == <<emailSet, passwordSet, useWaitUntilOpen, openAt>>
runVars == <<clock, browser, error, errorFrom, exitCode, locals, outcome,
             surfaceTouched, waitObs, lookupObs, pollObs, clickObs>>
vars == <<cfg, pc, clock, browser, error, errorFrom, exitCode, locals, outcome,
          surfaceTouched, waitObs, lookupObs, pollObs, clickObs>>

(***************************************************************************)
(* Program constants.                                                      *)
(***************************************************************************)
READY_MINUTES_BEFORE == 1
RESERVE_RETRY_MS == 350
SpinThresholdMs == 400
SpinGuardMs == 200
RequiredDayColumns == 7
MsPerDay == 86400000
\* Sun=0 Mon=1 ... Sat=6
TARGET_WEEKDAY == 1
OPEN_TIME == [hour |-> 20, minute |-> 0, second |-> 0]
\* the lead of computeTargetClassDate and the offset of computeOpenTimeForClass
LeadDays == 7
OpenOffsetDays == 8

\* MUST_INCLUDE: the substrings a card's text must contain (strings are
\* sequences of characters).
MUST_INCLUDE == << <<"a", "b">>, <<"b", "b">> >>

(***************************************************************************)
(* Bounds of the model.                                                    *)
(***************************************************************************)
\* The wall-clock budget of the polling loop. The program is configured with
\* five minutes (about 857 polls); the model runs it with a budget of three
\* retry intervals, so that the deadline falls within a few polls.
MaxWaitMs == 1050
\* how late a timer fires, or how long a slow call on the page takes
SlowMs == 600
\* time one iteration of the busy wait takes
SpinTickMs == 100
\* most cards in the target column
MaxCards == 2
\* longest card text
MaxTextLen == 3
MaxDaySpan == 13
MaxCriteria == 2
MaxCriterionLen == 2

RESERVE_MAX_WAIT_MS == MaxWaitMs

Alphabet == {"a", "b"}

\* openAt relative to the start of the process: already passed, within the
\* spin threshold, beyond it, and beyond the ready lead
OpenAtChoices == {-1000, 300, 2000, 70000}

Durations == {0, SlowMs}

RECURSIVE SeqsUpTo(_)
SeqsUpTo(n) ==
    IF n = 0 THEN {<<>>}
    ELSE LET shorter == SeqsUpTo(n - 1)
         IN shorter \cup {Append(s, c) : s \in {t \in shorter : Len(t) = n - 1}, c \in Alphabet}

CardTexts == SeqsUpTo(MaxTextLen)

(***************************************************************************)
(* Pure helpers of src/utils.js.                                           *)
(***************************************************************************)
msUntilDateTime(targetMs, nowMs) == targetMs - nowMs

\* String.prototype.includes
Includes(text, s) ==
    \E k \in 0..(Len(text) - Len(s)) :
        \A j \in 1..Len(s) : text[k + j] = s[j]

\* Array.prototype.some in place of every
cardMatchesSome(cardText, mustInclude) ==
    \E n \in 1..Len(mustInclude) : Includes(cardText, mustInclude[n])

cardMatches(cardText, mustInclude) ==
    \A n \in 1..Len(mustInclude) : Includes(cardText, mustInclude[n])

readyAt == openAt - READY_MINUTES_BEFORE * 60000

(***************************************************************************)
(* Date: a local calendar day (days since 1970-01-01) and the time of day  *)
(* in milliseconds. The methods are those of the JavaScript Date the       *)
(* planner calls; local times that a daylight-saving transition skips or   *)
(* repeats are not modelled.                                               *)
(***************************************************************************)
NoDate == [day |-> -1, ms |-> -1]

\* the proleptic Gregorian calendar: year, month (0..11) and day of month
\* of a day number
CivilFromDays(days) ==
    LET z == days + 719468
        era == z \div 146097
        doe == z - era * 146097
        yoe == (doe - doe \div 1460 + doe \div 36524 - doe \div 146096) \div 365
        doy == doe - (365 * yoe + yoe \div 4 - yoe \div 100)
        mp == (5 * doy + 2) \div 153
        d == doy - (153 * mp + 2) \div 5 + 1
        m == IF mp < 10 THEN mp + 3 ELSE mp - 9
        y == yoe + era * 400 + (IF m <= 2 THEN 1 ELSE 0)
    IN [year |-> y, month |-> m - 1, date |-> d]

\* MakeDay: the day number of year, month (0..11) and a day of month that
\* may lie outside the month, as setDate passes it
DaysFromCivil(year, month, date) ==
    LET m == month + 1
        y == IF m <= 2 THEN year - 1 ELSE year
        era == y \div 400
        yoe == y - era * 400
        doy == (153 * (IF m > 2 THEN m - 3 ELSE m + 9) + 2) \div 5 + date - 1
        doe == yoe * 365 + yoe \div 4 - yoe \div 100 + doy
    IN era * 146097 + doe - 719468

\* new Date(date): a copy
NewDate(date) == date

getFullYear(date) == CivilFromDays(date.day).year
getMonth(date) == CivilFromDays(date.day).month
getDate(date) == CivilFromDays(date.day).date

\* 1970-01-01 was a Thursday
getDay(date) == (date.day + 4) % 7

setDate(date, n) ==
    [date EXCEPT !.day = DaysFromCivil(getFullYear(date), getMonth(date), n)]

setHours(date, hour, minute, second, milli) ==
    [date EXCEPT !.ms = ((hour * 60 + minute) * 60 + second) * 1000 + milli]

\* getTime() differences
MsBetween(from, to) == (to.day - from.day) * MsPerDay + (to.ms - from.ms)

\* the % of JavaScript: the remainder has the sign of the dividend
JsRem(a, b) == IF a >= 0 THEN a % b ELSE -((-a) % b)

(***************************************************************************)
(* The planner of src/utils.js.                                            *)
(***************************************************************************)
\* the difference without the + 7 that keeps it from going negative
WeekdayDiffSigned(weekday, day) == JsRem(weekday - day, 7)

WeekdayDiff(weekday, day) == JsRem(weekday - day + 7, 7)

\* a date strictly after the base date: a full week when the weekdays agree
nextWeekdayAfter(baseDate, weekday) ==
    LET date == NewDate(baseDate)
        diff == WeekdayDiff(weekday, getDay(date))
    IN setDate(date, getDate(date) + (IF diff = 0 THEN 7 ELSE diff))

nextWeekdayOnOrAfter(baseDate, weekday) ==
    LET date == NewDate(baseDate)
        diff == WeekdayDiff(weekday, getDay(date))
    IN setDate(date, getDate(date) + diff)

\* the base without the lead of a week
TargetBaseToday(nowDate) == NewDate(nowDate)

\* const base = new Date(now); base.setDate(base.getDate() + 7)
TargetBase(nowDate) ==
    LET b == NewDate(nowDate)
    IN setDate(b, getDate(b) + LeadDays)

computeTargetClassDate(weekday, nowDate) ==
    nextWeekdayOnOrAfter(TargetBase(nowDate), weekday)

\* the offset added instead of subtracted
OpenDayAfter(date) == setDate(date, getDate(date) + OpenOffsetDays)

\* openAt.setDate(openAt.getDate() - 8)
OpenDay(date) == setDate(date, getDate(date) - OpenOffsetDays)

OpenTimeOfDay(date, hour, minute, second) == setHours(date, hour, minute, second, 0)

\* the function working on its argument instead of a copy
computeOpenTimeForClassInPlace(date, hour, minute, second) ==
    LET moved == OpenTimeOfDay(OpenDay(date), hour, minute, second)
    IN [result |-> moved, classDate |-> moved]

\* the function's result, and its argument object as the call leaves it
computeOpenTimeForClass(date, hour, minute, second) ==
    LET copy == NewDate(date)
    IN [result |-> OpenTimeOfDay(OpenDay(copy), hour, minute, second),
        classDate |-> date]

(***************************************************************************)
(* Initial state: the module has been loaded, run() is about to start.     *)
(***************************************************************************)
\* what the process is started with: the instant, TARGET_WEEKDAY and
\* OPEN_TIME. Sunday 2026-02-22 with a Monday class opening at 20:00:00 puts
\* the open instant on the start day, and each of OpenAtChoices is the time
\* left to it; the other starts are days away from their open instant.
StartPlans ==
    LET openA == [day |-> DaysFromCivil(2026, 1, 22),
                  ms |-> ((OPEN_TIME.hour * 60 + OPEN_TIME.minute) * 60
                             + OPEN_TIME.second) * 1000]
    IN {[now |-> [day |-> openA.day, ms |-> openA.ms - o],
         targetWeekday |-> TARGET_WEEKDAY, openTime |-> OPEN_TIME]
            : o \in OpenAtChoices}
       \cup {[now |-> [day |-> DaysFromCivil(2026, 1, 13), ms |-> 12 * 3600000],
              targetWeekday |-> TARGET_WEEKDAY, openTime |-> OPEN_TIME],
             [now |-> [day |-> DaysFromCivil(2027, 11, 27), ms |-> MsPerDay - 1],
              targetWeekday |-> 1,
              openTime |-> [hour |-> 0, minute |-> 0, second |-> 0]],
             [now |-> [day |-> DaysFromCivil(2028, 1, 25), ms |-> 0],
              targetWeekday |-> 6,
              openTime |-> [hour |-> 23, minute |-> 59, second |-> 59]]}

\* no call of cardMatches is being observed
MatchIdle ==
    /\ matchText = <<>>
    /\ matchCriteria = <<>>
    /\ matchResult = FALSE
    /\ matchReversed = FALSE

\* run() has not started
RunIdle ==
    /\ clock = 0
    /\ browser = "none"
    /\ error = "none"
    /\ errorFrom = "none"
    /\ exitCode = 0
    /\ msToOpen = 0
    /\ dayCount = -1
    /\ cardCount = -1
    /\ cardIdx = 0
    /\ targetCard = 0
    /\ start = 0
    /\ outcome = "none"
    /\ surfaceTouched = FALSE
    /\ readySleeps = 0
    /\ openSleeps = 0
    /\ openSpins = 0
    /\ reserveShown = FALSE
    /\ waitlistShown = FALSE
    /\ msToReady = 0
    /\ readySleepMs = -1
    /\ openSleepMs = -1
    /\ dayLookups = 0
    /\ cardLookups = 0
    /\ attempts = 0
    /\ firstProbeAt = 0
    /\ polls = 0
    /\ iterStartElapsed = 0
    /\ lastReserve = "none"
    /\ lastWaitlist = "none"
    /\ everVisible = FALSE
    /\ retrySleeps = 0
    /\ reloads = 0
    /\ lastReload = "none"
    /\ reserveClicks = 0
    /\ finishClicks = 0
    /\ finishSeen = FALSE
    /\ finishTimedOut = FALSE

Init ==
    /\ emailSet \in BOOLEAN
    /\ passwordSet \in BOOLEAN
    /\ useWaitUntilOpen \in BOOLEAN
    /\ \E p \in StartPlans :
          /\ now = p.now
          /\ targetWeekday = p.targetWeekday
          /\ openTime = p.openTime
    /\ base = TargetBase(now)
    /\ classDate = computeTargetClassDate(targetWeekday, now)
    /\ openAtDate = computeOpenTimeForClass(classDate, openTime.hour, openTime.minute,
                                            openTime.second).result
    /\ openAgain = NoDate
    /\ openAt = MsBetween(now, openAtDate)
    /\ MatchIdle
    /\ pc = "checkCredentials"
    /\ RunIdle

(***************************************************************************)
(* Control transfer.                                                       *)
(***************************************************************************)
\* an error thrown outside the try block rejects run() directly
Reject(kind, from) ==
    /\ pc' = "rejected"
    /\ error' = kind
    /\ errorFrom' = from

\* an error thrown inside the try block runs the finally block first
ThrowInTry(kind, from) ==
    /\ pc' = "finally"
    /\ error' = kind
    /\ errorFrom' = from

Goto(label) ==
    /\ pc' = label
    /\ UNCHANGED <<error, errorFrom>>

\* time passes while a call is awaited
Elapse(S) == \E d \in S : clock' = clock + d

(***************************************************************************)
(* run(): before the browser.                                              *)
(***************************************************************************)
\* the check with && for ||: only both credentials missing is refused
CredentialsMissingBoth == ~emailSet /\ ~passwordSet

CredentialsMissing == ~emailSet \/ ~passwordSet

CheckCredentials ==
    /\ pc = "checkCredentials"
    /\ IF CredentialsMissing
       THEN Reject("config", "checkCredentials")
       ELSE Goto("readyWait")
    /\ UNCHANGED <<cfg, clock, browser, exitCode, locals, outcome, surfaceTouched,
                   waitObs, lookupObs, pollObs, clickObs>>

ReadyWait ==
    /\ pc = "readyWait"
    /\ IF useWaitUntilOpen
       THEN /\ msToReady' = msUntilDateTime(readyAt, clock)
            /\ IF msToReady' > 0
               THEN /\ Elapse({msToReady' + j : j \in Durations})
                    /\ readySleeps' = readySleeps + 1
                    /\ readySleepMs' = msToReady'
               ELSE UNCHANGED <<clock, readySleeps, readySleepMs>>
       ELSE UNCHANGED <<clock, readySleeps, msToReady, readySleepMs>>
    /\ Goto("launch")
    /\ UNCHANGED <<cfg, browser, exitCode, locals, outcome, surfaceTouched,
                   openSleeps, openSpins, openSleepMs, lookupObs, pollObs, clickObs>>

Launch ==
    /\ pc = "launch"
    /\ \E ok \in BOOLEAN :
        IF ok
        THEN browser' = "open" /\ Goto("newContext")
        ELSE browser' = browser /\ Reject("surface", "launch")
    /\ UNCHANGED <<cfg, clock, exitCode, locals, outcome, surfaceTouched,
                   waitObs, lookupObs, pollObs, clickObs>>

NewContext ==
    /\ pc = "newContext"
    /\ \E ok \in BOOLEAN :
        IF ok THEN Goto("newPage") ELSE Reject("surface", "newContext")
    /\ UNCHANGED <<cfg, clock, browser, exitCode, locals, outcome, surfaceTouched,
                   waitObs, lookupObs, pollObs, clickObs>>

NewPage ==
    /\ pc = "newPage"
    /\ \E ok \in BOOLEAN :
        IF ok THEN Goto("login") ELSE Reject("surface", "newPage")
    /\ UNCHANGED <<cfg, clock, browser, exitCode, locals, outcome, surfaceTouched,
                   waitObs, lookupObs, pollObs, clickObs>>

(***************************************************************************)
(* run(): the try block up to the class details page.                      *)
(***************************************************************************)
\* goto(LOGIN_URL), fill, fill, click + waitForLoadState
Login ==
    /\ pc = "login"
    /\ surfaceTouched' = TRUE
    /\ Elapse(Durations)
    /\ \E ok \in BOOLEAN :
        IF ok THEN Goto("openSchedule") ELSE ThrowInTry("surface", "login")
    /\ UNCHANGED <<cfg, browser, exitCode, locals, outcome,
                   waitObs, lookupObs, pollObs, clickObs>>

\* goto(scheduleUrl), dismissCookieBanner, wait for the first class cell
OpenSchedule ==
    /\ pc = "openSchedule"
    /\ surfaceTouched' = TRUE
    /\ \E ok \in BOOLEAN :
        IF ok THEN Goto("countDays") ELSE ThrowInTry("surface", "openSchedule")
    /\ UNCHANGED <<cfg, clock, browser, exitCode, locals, outcome,
                   waitObs, lookupObs, pollObs, clickObs>>

\* the day columns the page may render
DayCounts == {0, RequiredDayColumns - 1, RequiredDayColumns}

TooFewDays(n) == n < RequiredDayColumns

CountDays ==
    /\ pc = "countDays"
    /\ surfaceTouched' = TRUE
    /\ dayLookups' = dayLookups + 1
    /\ \/ dayCount' = dayCount /\ ThrowInTry("surface", "countDays")
       \/ \E n \in DayCounts :
            /\ dayCount' = n
            /\ IF TooFewDays(n)
               THEN ThrowInTry("notfound", "countDays")
               ELSE Goto("countCards")
    /\ UNCHANGED <<cfg, clock, browser, exitCode, msToOpen, cardCount, cardIdx,
                   targetCard, start, outcome, waitObs, cardLookups, pollObs,
                   clickObs>>

CountCards ==
    /\ pc = "countCards"
    /\ cardLookups' = cardLookups + 1
    /\ \/ /\ ThrowInTry("surface", "countCards")
          /\ UNCHANGED <<cardCount, cardIdx, targetCard>>
       \/ \E n \in 0..MaxCards :
            /\ cardCount' = n
            /\ targetCard' = 0
            /\ cardIdx' = 0
            /\ Goto("scanCards")
    /\ UNCHANGED <<cfg, clock, browser, exitCode, msToOpen, dayCount, start, outcome,
                   surfaceTouched, waitObs, dayLookups, pollObs, clickObs>>

\* one evaluation of the for loop's condition, with the loop's body when it
\* holds
ScanCards ==
    /\ pc = "scanCards"
    /\ IF cardIdx < cardCount
       THEN \/ /\ ThrowInTry("surface", "scanCards")
               /\ UNCHANGED <<cardIdx, targetCard>>
            \/ \E text \in CardTexts :
                 IF cardMatches(text, MUST_INCLUDE)
                 THEN /\ targetCard' = cardIdx + 1
                      /\ cardIdx' = cardIdx
                      /\ Goto("checkCard")
                 ELSE /\ cardIdx' = cardIdx + 1
                      /\ targetCard' = targetCard
                      /\ Goto("scanCards")
       ELSE /\ Goto("checkCard")
            /\ UNCHANGED <<cardIdx, targetCard>>
    /\ UNCHANGED <<cfg, clock, browser, exitCode, msToOpen, dayCount, cardCount, start,
                   outcome, surfaceTouched, waitObs, lookupObs, pollObs, clickObs>>

\* the null check left out
NoCardFoundIgnored == FALSE

NoCardFound == targetCard = 0

\* if (!targetCard) throw
CheckCard ==
    /\ pc = "checkCard"
    /\ IF NoCardFound
       THEN ThrowInTry("notfound", "checkCard")
       ELSE Goto("enterDetails")
    /\ UNCHANGED <<cfg, clock, browser, exitCode, locals, outcome, surfaceTouched,
                   waitObs, lookupObs, pollObs, clickObs>>

\* classLink.click() + waitForURL, dismissCookieBanner
EnterDetails ==
    /\ pc = "enterDetails"
    /\ Elapse(Durations)
    /\ \E ok \in BOOLEAN :
        IF ok THEN Goto("openWait") ELSE ThrowInTry("surface", "enterDetails")
    /\ UNCHANGED <<cfg, browser, exitCode, locals, outcome, surfaceTouched,
                   waitObs, lookupObs, pollObs, clickObs>>

(***************************************************************************)
(* run(): the wait until the open instant.                                 *)
(***************************************************************************)
WaitNeeded(ms) == ms > 0

\* the threshold left out: a coarse sleep whenever time remains
SleepWhenever(ms) == ms > 0

SleepNeeded(ms) == ms > SpinThresholdMs

OpenWait ==
    /\ pc = "openWait"
    /\ IF useWaitUntilOpen
       THEN /\ msToOpen' = msUntilDateTime(openAt, clock)
            /\ IF WaitNeeded(msToOpen')
               THEN IF SleepNeeded(msToOpen') THEN Goto("openSleep") ELSE Goto("openSpin")
               ELSE Goto("attempt")
       ELSE /\ msToOpen' = msToOpen
            /\ Goto("attempt")
    /\ UNCHANGED <<cfg, clock, browser, exitCode, dayCount, cardCount, cardIdx,
                   targetCard, start, outcome, surfaceTouched, waitObs, lookupObs,
                   pollObs, clickObs>>

OpenSleep ==
    /\ pc = "openSleep"
    /\ Elapse({msToOpen - SpinGuardMs + j : j \in Durations})
    /\ openSleeps' = openSleeps + 1
    /\ openSleepMs' = msToOpen - SpinGuardMs
    /\ Goto("openSpin")
    /\ UNCHANGED <<cfg, browser, exitCode, locals, outcome, surfaceTouched,
                   readySleeps, openSpins, msToReady, readySleepMs, lookupObs,
                   pollObs, clickObs>>

\* the busy wait left out: the coarse sleep alone
SpinSkipped == FALSE

SpinContinues == msUntilDateTime(openAt, clock) > 0

\* one evaluation of the busy wait's condition; its body is empty, and the
\* clock moves on while it runs
OpenSpin ==
    /\ pc = "openSpin"
    /\ IF SpinContinues
       THEN /\ clock' = clock + SpinTickMs
            /\ openSpins' = openSpins + 1
            /\ Goto("openSpin")
       ELSE /\ UNCHANGED <<clock, openSpins>>
            /\ Goto("attempt")
    /\ UNCHANGED <<cfg, browser, exitCode, locals, outcome, surfaceTouched,
                   readySleeps, openSleeps, msToReady, readySleepMs, openSleepMs,
                   lookupObs, pollObs, clickObs>>

(***************************************************************************)
(* clickReserveAndFinish(page).                                            *)
(***************************************************************************)
Attempt ==
    /\ pc = "attempt"
    /\ start' = clock
    /\ attempts' = attempts + 1
    /\ Goto("loopTest")
    /\ UNCHANGED <<cfg, clock, browser, exitCode, msToOpen, dayCount, cardCount,
                   cardIdx, targetCard, outcome, surfaceTouched, waitObs, lookupObs,
                   firstProbeAt, polls, iterStartElapsed, lastReserve, lastWaitlist,
                   everVisible, retrySleeps, reloads, lastReload, pageShows, clickObs>>

\* the deadline compared with <= for <
WithinBudgetInclusive(elapsed) == elapsed <= RESERVE_MAX_WAIT_MS

WithinBudget(elapsed) == elapsed < RESERVE_MAX_WAIT_MS

LoopTest ==
    /\ pc = "loopTest"
    /\ IF WithinBudget(clock - start)
       THEN /\ iterStartElapsed' = clock - start
            /\ outcome' = outcome
            /\ Goto("reserveProbe")
       ELSE /\ iterStartElapsed' = iterStartElapsed
            /\ outcome' = "TimedOut"
            /\ ThrowInTry("timeout", "loopTest")
    /\ UNCHANGED <<cfg, clock, browser, exitCode, locals, surfaceTouched, waitObs,
                   lookupObs, attempts, firstProbeAt, polls, lastReserve, lastWaitlist,
                   everVisible, retrySleeps, reloads, lastReload, pageShows, clickObs>>

\* the probe without its catch: a rejection stays a rejection
UncaughtProbe(r) == r

\* isVisible().catch(() => false)
CaughtProbe(r) == IF r = "failed" THEN "hidden" ELSE r

\* what isVisible() can do on a control the page shows or does not show
ProbeOutcomes(shown) == {IF shown THEN "visible" ELSE "hidden", "failed"}

\* the waitlist indicator probed although the reserve control is visible
AfterReserveVisibleProbeWaitlist == Goto("waitlistProbe")

\* what follows a reserve probe that returned visible
AfterReserveVisible == Goto("reserveClick")

ReserveProbe ==
    /\ pc = "reserveProbe"
    /\ surfaceTouched' = TRUE
    /\ polls' = polls + 1
    /\ firstProbeAt' = IF polls = 0 THEN clock ELSE firstProbeAt
    /\ Elapse(Durations)
    /\ reserveShown' \in BOOLEAN
    /\ waitlistShown' \in BOOLEAN
    /\ \E r \in ProbeOutcomes(reserveShown') :
        /\ lastReserve' = r
        /\ everVisible' = (everVisible \/ r = "visible")
        /\ IF CaughtProbe(r) = "failed" THEN ThrowInTry("surface", "reserveProbe")
           ELSE IF CaughtProbe(r) = "visible" THEN AfterReserveVisible
           ELSE Goto("waitlistProbe")
    /\ UNCHANGED <<cfg, browser, exitCode, locals, outcome, waitObs, lookupObs,
                   attempts, iterStartElapsed, lastWaitlist, retrySleeps, reloads, lastReload,
                   clickObs>>

ReserveClick ==
    /\ pc = "reserveClick"
    /\ reserveClicks' = reserveClicks + 1
    /\ \E ok \in BOOLEAN :
        IF ok THEN Goto("finishWait") ELSE ThrowInTry("surface", "reserveClick")
    /\ UNCHANGED <<cfg, clock, browser, exitCode, locals, outcome, surfaceTouched,
                   waitObs, lookupObs, pollObs, finishClicks, finishSeen,
                   finishTimedOut>>

FinishTimeoutMs == 15000

\* the timeout swallowed, and the polling resumed
AfterFinishTimeoutRetry == Goto("retrySleep")

\* what follows a finishBtn.waitFor that timed out
AfterFinishTimeout == ThrowInTry("surface", "finishWait")

FinishWait ==
    /\ pc = "finishWait"
    /\ \E ok \in BOOLEAN :
        IF ok
        THEN /\ finishSeen' = TRUE
             /\ finishTimedOut' = finishTimedOut
             /\ clock' = clock
             /\ Goto("finishClick")
        ELSE /\ finishSeen' = finishSeen
             /\ finishTimedOut' = TRUE
             /\ clock' = clock + FinishTimeoutMs
             /\ AfterFinishTimeout
    /\ UNCHANGED <<cfg, browser, exitCode, locals, outcome, surfaceTouched,
                   waitObs, lookupObs, pollObs, reserveClicks, finishClicks>>

\* the return after the finish click left out
AfterFinishClickNoReturn ==
    /\ outcome' = "Reserved"
    /\ Goto("retrySleep")

\* what follows a finishBtn.click() that succeeded
AfterFinishClick ==
    /\ outcome' = "Reserved"
    /\ Goto("postWait")

FinishClick ==
    /\ pc = "finishClick"
    /\ finishClicks' = finishClicks + 1
    /\ \E ok \in BOOLEAN :
        IF ok
        THEN AfterFinishClick
        ELSE outcome' = outcome /\ ThrowInTry("surface", "finishClick")
    /\ UNCHANGED <<cfg, clock, browser, exitCode, locals, surfaceTouched,
                   waitObs, lookupObs, pollObs, reserveClicks, finishSeen,
                   finishTimedOut>>

\* the waitlist return left out: the loop goes on to its sleep
AfterWaitlistVisibleNoReturn ==
    /\ outcome' = outcome
    /\ Goto("retrySleep")

\* the waitlist reported, and the polling carried on
AfterWaitlistVisibleKeepPolling ==
    /\ outcome' = "Waitlisted"
    /\ Goto("retrySleep")

\* what follows a waitlist probe that returned visible
AfterWaitlistVisible ==
    /\ outcome' = "Waitlisted"
    /\ Goto("postWait")

WaitlistProbe ==
    /\ pc = "waitlistProbe"
    /\ \E r \in ProbeOutcomes(waitlistShown) :
        /\ lastWaitlist' = r
        /\ everVisible' = (everVisible \/ r = "visible")
        /\ IF CaughtProbe(r) = "failed"
           THEN outcome' = outcome /\ ThrowInTry("surface", "waitlistProbe")
           ELSE IF CaughtProbe(r) = "visible" THEN AfterWaitlistVisible
           ELSE outcome' = outcome /\ Goto("retrySleep")
    /\ UNCHANGED <<cfg, clock, browser, exitCode, locals, surfaceTouched, waitObs,
                   lookupObs, attempts, firstProbeAt, polls, iterStartElapsed,
                   lastReserve, retrySleeps, reloads, lastReload, pageShows, clickObs>>

\* the reload left out: the loop goes straight back to its deadline check
AfterRetrySleepNoReload == Goto("loopTest")

\* what follows await sleep(RESERVE_RETRY_MS)
AfterRetrySleep == Goto("reload")

RetrySleep ==
    /\ pc = "retrySleep"
    /\ Elapse({RESERVE_RETRY_MS + j : j \in Durations})
    /\ retrySleeps' = retrySleeps + 1
    /\ AfterRetrySleep
    /\ UNCHANGED <<cfg, browser, exitCode, locals, outcome, surfaceTouched,
                   waitObs, lookupObs, attempts, firstProbeAt, polls,
                   iterStartElapsed, lastReserve, lastWaitlist, everVisible,
                   reloads, lastReload, pageShows, clickObs>>

\* page.reload(...).catch(() => {}): a rejection is dropped; the iteration
\* is over, and what the new page shows is for the next probes to find
Reload ==
    /\ pc = "reload"
    /\ reloads' = reloads + 1
    /\ \E r \in {"ok", "failed"} : lastReload' = r
    /\ reserveShown' = FALSE
    /\ waitlistShown' = FALSE
    /\ Goto("loopTest")
    /\ UNCHANGED <<cfg, clock, browser, exitCode, locals, outcome, surfaceTouched,
                   waitObs, lookupObs, attempts, firstProbeAt, polls,
                   iterStartElapsed, lastReserve, lastWaitlist, everVisible,
                   retrySleeps, clickObs>>

(***************************************************************************)
(* run(): after the attempt, the finally block, and the top-level catch.   *)
(***************************************************************************)
PostWaitMs == 1000

PostWait ==
    /\ pc = "postWait"
    /\ clock' = clock + PostWaitMs
    /\ \E ok \in BOOLEAN :
        IF ok THEN Goto("finally") ELSE ThrowInTry("surface", "postWait")
    /\ UNCHANGED <<cfg, browser, exitCode, locals, outcome, surfaceTouched,
                   waitObs, lookupObs, pollObs, clickObs>>

\* finally { await browser.close() }: the pending error, if any, is rethrown
\* after the close; an error of the close replaces it
Finally ==
    /\ pc = "finally"
    /\ browser' = "closed"
    /\ \E ok \in BOOLEAN :
        IF ok
        THEN /\ pc' = IF error = "none" THEN "done" ELSE "rejected"
             /\ UNCHANGED <<error, errorFrom>>
        ELSE Reject("surface", "close")
    /\ UNCHANGED <<cfg, clock, exitCode, locals, outcome, surfaceTouched,
                   waitObs, lookupObs, pollObs, clickObs>>

\* the handler without its assignment to process.exitCode
OnRejectedLogOnly ==
    /\ exitCode' = exitCode
    /\ Goto("done")

\* run(...).catch((err) => { ...; process.exitCode = 1; })
OnRejected ==
    /\ exitCode' = 1
    /\ Goto("done")

TopLevelCatch ==
    /\ pc = "rejected"
    /\ OnRejected
    /\ UNCHANGED <<cfg, clock, browser, locals, outcome, surfaceTouched,
                   waitObs, lookupObs, pollObs, clickObs>>

Next ==
    \/ CheckCredentials
    \/ ReadyWait
    \/ Launch
    \/ NewContext
    \/ NewPage
    \/ Login
    \/ OpenSchedule
    \/ CountDays
    \/ CountCards
    \/ ScanCards
    \/ CheckCard
    \/ EnterDetails
    \/ OpenWait
    \/ OpenSleep
    \/ OpenSpin
    \/ Attempt
    \/ LoopTest
    \/ ReserveProbe
    \/ ReserveClick
    \/ FinishWait
    \/ FinishClick
    \/ WaitlistProbe
    \/ RetrySleep
    \/ Reload
    \/ PostWait
    \/ Finally
    \/ TopLevelCatch

Spec == Init /\ [][Next]_vars

\* the runs that get as far as the attempt from a start on Sunday 2026-02-22:
\* credentials present, the open instant passed or up to 70 s ahead
AttemptInit ==
    /\ Init
    /\ emailSet
    /\ passwordSet
    /\ now.day = DaysFromCivil(2026, 1, 22)

\* every call returns or fails in finite time and the clock advances: a step
\* that can be taken is taken
FairSpec == AttemptInit /\ [][Next]_vars /\ WF_vars(Next)

(***************************************************************************)
(* The planner on its own: the module-level calls of part_001:281-288 for  *)
(* any start instant, target weekday and open time.                        *)
(***************************************************************************)
\* the first days of the windows start instants are drawn from: a Friday in
\* February 2026, a window across the turn of the year, and one across the
\* leap day of 2028
WindowStarts ==
    {DaysFromCivil(2026, 1, 13), DaysFromCivil(2027, 11, 20),
     DaysFromCivil(2028, 1, 18)}

TimesOfDay == {0, 12 * 3600000, 20 * 3600000, MsPerDay - 1}

PlannerInstants ==
    {[day |-> w + k, ms |-> t] : w \in WindowStarts, k \in 0..MaxDaySpan,
                                 t \in TimesOfDay}

OpenTimes ==
    {OPEN_TIME, [hour |-> 0, minute |-> 0, second |-> 0],
     [hour |-> 23, minute |-> 59, second |-> 59]}

PlannerInit ==
    /\ emailSet = TRUE
    /\ passwordSet = TRUE
    /\ useWaitUntilOpen = TRUE
    /\ openAt = 0
    /\ now \in PlannerInstants
    /\ targetWeekday \in 0..6
    /\ openTime \in OpenTimes
    /\ base = NoDate
    /\ classDate = NoDate
    /\ openAtDate = NoDate
    /\ openAgain = NoDate
    /\ MatchIdle
    /\ pc = "planClassDate"
    /\ RunIdle

\* const classDate = computeTargetClassDate(TARGET_WEEKDAY)
CallComputeTargetClassDate ==
    /\ pc = "planClassDate"
    /\ base' = TargetBase(now)
    /\ classDate' = computeTargetClassDate(targetWeekday, now)
    /\ pc' = "planOpenTime"
    /\ UNCHANGED <<env, now, targetWeekday, openTime, openAtDate, openAgain,
                   matchVars, runVars>>

\* const openAt = computeOpenTimeForClass(classDate, OPEN_TIME.hour, ...)
CallComputeOpenTimeForClass ==
    /\ pc = "planOpenTime"
    /\ LET call == computeOpenTimeForClass(classDate, openTime.hour,
                                           openTime.minute, openTime.second)
       IN /\ openAtDate' = call.result
          /\ classDate' = call.classDate
    /\ pc' = "planned"
    /\ UNCHANGED <<env, now, targetWeekday, openTime, base, openAgain,
                   matchVars, runVars>>

\* the same call once more, on the class date as the first call left it
CallComputeOpenTimeAgain ==
    /\ pc = "planned"
    /\ LET call == computeOpenTimeForClass(classDate, openTime.hour,
                                           openTime.minute, openTime.second)
       IN /\ openAgain' = call.result
          /\ classDate' = call.classDate
    /\ pc' = "plannedTwice"
    /\ UNCHANGED <<env, now, targetWeekday, openTime, base, openAtDate,
                   matchVars, runVars>>

PlannerNext ==
    \/ CallComputeTargetClassDate
    \/ CallComputeOpenTimeForClass
    \/ CallComputeOpenTimeAgain

PlannerSpec == PlannerInit /\ [][PlannerNext]_vars

(***************************************************************************)
(* Properties.                                                             *)
(***************************************************************************)
Ended == pc \in {"finally", "rejected", "done"}

AttemptEnded == attempts > 0 /\ pc \in {"postWait", "finally", "rejected", "done"}

\* C1 as stated: in every run the first reserve probe is issued at a clock
\* instant >= openAt, and a wait whose check finds openAt already passed
\* performs no sleep and no spin.
C1_FirstProbeNotBeforeOpen ==
    /\ polls > 0 => firstProbeAt >= openAt
    /\ (useWaitUntilOpen /\ attempts > 0 /\ msToOpen <= 0)
           => (openSleeps = 0 /\ openSpins = 0)

\* C1 amended: in every run with USE_WAIT_UNTIL_OPEN enabled,
\* clickReserveAndFinish is entered and the first reserve probe is issued at
\* a clock instant >= openAt, and a wait whose check finds openAt already
\* passed performs no sleep and no spin.
C1_FirstProbeNotBeforeOpenWhenWaiting ==
    useWaitUntilOpen =>
        /\ attempts > 0 => start >= openAt
        /\ polls > 0 => firstProbeAt >= openAt
        /\ (attempts > 0 /\ msToOpen <= 0) => (openSleeps = 0 /\ openSpins = 0)

C1_Witness ==
    /\ useWaitUntilOpen
    /\ polls > 0
    /\ openSleeps = 1
    /\ openSpins > 0
    /\ firstProbeAt = openAt

\* C2 as stated: the exit code is 0 when the outcome is Reserved (and nothing
\* failed afterwards) and non-zero for every other ending of a run.
C2_ExitZeroOnlyOnReserved ==
    pc = "done" =>
        /\ (outcome = "Reserved" /\ error = "none") => exitCode = 0
        /\ outcome # "Reserved" => exitCode # 0

\* C2 amended: the exit code is 0 exactly when the run ends without an
\* error, which happens only with outcome Reserved or Waitlisted; it is
\* non-zero for every ending with an error: missing credentials, no matching
\* session, TimedOut, or any surface error.
C2_ExitZeroIffNoError ==
    pc = "done" =>
        /\ exitCode = 0 <=> error = "none"
        /\ exitCode = 0 => outcome \in {"Reserved", "Waitlisted"}
        /\ (outcome \in {"Reserved", "Waitlisted"} /\ errorFrom \notin {"postWait", "close"})
               => exitCode = 0
        /\ exitCode \in {0, 1}

C2_Witness ==
    /\ pc = "done"
    /\ outcome = "Waitlisted"
    /\ exitCode = 0

FirstPollWaitlisted == polls = 1 /\ lastWaitlist = "visible"

NoRetryNoClick ==
    /\ retrySleeps = 0
    /\ reloads = 0
    /\ reserveClicks = 0
    /\ finishClicks = 0

\* C3 as stated: the waitlist indicator visible on the first poll ends the
\* attempt as Waitlisted with no sleep, reload or click, and the process
\* exits with code 0.
C3_FirstPollWaitlistExitsZero ==
    FirstPollWaitlisted =>
        /\ outcome = "Waitlisted"
        /\ lastReserve # "visible"
        /\ NoRetryNoClick
        /\ pc = "done" => exitCode = 0

\* C3 amended: the waitlist indicator visible on the first poll ends the
\* attempt as Waitlisted with no sleep, reload or click; the process exits
\* with code 0 unless the page.waitForTimeout or the browser.close that
\* follow the attempt throw, and with code 1 if one of them does.
C3_FirstPollWaitlistNoRetry ==
    FirstPollWaitlisted =>
        /\ outcome = "Waitlisted"
        /\ lastReserve # "visible"
        /\ NoRetryNoClick
        /\ pc \in {"postWait", "finally", "rejected", "done"}
        /\ errorFrom \in {"none", "postWait", "close"}
        /\ pc = "done" => (exitCode = 0 <=> errorFrom = "none")

C3_Witness ==
    /\ FirstPollWaitlisted
    /\ pc = "done"
    /\ exitCode = 0

\* C4: once the browser has been launched it is closed on every exit path of
\* the run.
C4_BrowserClosedOnEveryExit ==
    (pc = "done" /\ browser # "none") => browser = "closed"

\* C5: no poll iteration begins (its reserve probe is issued) when the time
\* since entry is >= RESERVE_MAX_WAIT_MS; TimedOut is reported only past that budget; and an
\* attempt in which no probe ever returned visible ends as TimedOut, with an
\* error and a non-zero exit code.
C5_TimedOutPastBudget ==
    /\ pc = "reserveProbe" =>
           (clock - start < RESERVE_MAX_WAIT_MS /\ iterStartElapsed = clock - start)
    /\ outcome = "TimedOut" =>
           (clock - start >= RESERVE_MAX_WAIT_MS /\ error # "none")
    /\ (AttemptEnded /\ ~everVisible) =>
           /\ outcome = "TimedOut"
           /\ errorFrom \in {"loopTest", "close"}
           /\ pc = "done" => exitCode # 0

C5_Witness ==
    /\ pc = "done"
    /\ outcome = "TimedOut"
    /\ ~everVisible
    /\ polls >= 2
    /\ exitCode = 1

\* C6: reserve is clicked at most once and finish at most once; finish is
\* clicked only after reserve and after the finish control was seen visible;
\* Reserved is returned only after the finish click.
C6_ClickOnceInOrder ==
    /\ reserveClicks <= 1
    /\ finishClicks <= 1
    /\ finishClicks = 1 => (reserveClicks = 1 /\ finishSeen)
    /\ pc = "finishClick" => (reserveClicks = 1 /\ finishSeen)
    /\ outcome = "Reserved" => (finishClicks = 1 /\ AttemptEnded)

C6_Witness ==
    /\ pc = "done"
    /\ outcome = "Reserved"
    /\ polls >= 2
    /\ reserveClicks = 1
    /\ finishClicks = 1

C7_FailedState ==
    finishTimedOut =>
        /\ Ended
        /\ error # "none"
        /\ errorFrom \in {"finishWait", "close"}
        /\ reserveClicks = 1
        /\ finishClicks = 0
        /\ outcome = "none"
        /\ pc = "done" => exitCode # 0

C7_NoMoreAttempts ==
    finishTimedOut =>
        /\ polls' = polls
        /\ retrySleeps' = retrySleeps
        /\ reloads' = reloads
        /\ reserveClicks' = reserveClicks
        /\ finishClicks' = finishClicks

\* C7: when the finish control does not become visible within its bound, the
\* error reaches the caller: no further poll, sleep, reload or click follows,
\* and the run ends with a non-zero exit code.
C7_FinishTimeoutIsFatal == [](C7_FailedState) /\ [][C7_NoMoreAttempts]_vars

C7_Witness ==
    /\ finishTimedOut
    /\ pc = "done"
    /\ polls >= 2
    /\ exitCode = 1

C8_NotPropagated ==
    /\ errorFrom \notin {"reserveProbe", "waitlistProbe", "reload"}
    /\ pc = "reserveClick" => lastReserve = "visible"
    /\ pc = "waitlistProbe" => lastReserve \in {"hidden", "failed"}
    /\ pc = "retrySleep" => lastWaitlist \in {"hidden", "failed"}
    /\ outcome = "Waitlisted" => lastWaitlist = "visible"

C8_Continues ==
    /\ (pc = "reserveProbe" /\ lastReserve' = "failed") => pc' = "waitlistProbe"
    /\ (pc = "waitlistProbe" /\ lastWaitlist' = "failed") => pc' = "retrySleep"
    /\ pc = "reload" => pc' = "loopTest"
    /\ (pc = "loopTest" /\ clock - start < RESERVE_MAX_WAIT_MS) => pc' = "reserveProbe"

\* C8: an error of a visibility probe or of a reload never leaves
\* clickReserveAndFinish: a failed probe counts as not visible, and the loop
\* goes on to its next iteration while the deadline has not passed.
C8_ProbeErrorsSwallowed == [](C8_NotPropagated) /\ [][C8_Continues]_vars

C8_Witness ==
    /\ pc = "reserveProbe"
    /\ polls >= 1
    /\ lastReserve = "failed"
    /\ lastWaitlist = "failed"
    /\ lastReload = "failed"

\* C9: with a credential missing, run fails with the configuration error
\* before anything else: no sleep, no browser, no call on the page, and a
\* non-zero exit code.
C9_MissingCredentialsFailFast ==
    (~emailSet \/ ~passwordSet) =>
        /\ pc \in {"checkCredentials", "rejected", "done"}
        /\ pc # "checkCredentials" => (error = "config" /\ errorFrom = "checkCredentials")
        /\ browser = "none"
        /\ ~surfaceTouched
        /\ clock = 0
        /\ readySleeps = 0 /\ openSleeps = 0 /\ openSpins = 0 /\ retrySleeps = 0
        /\ attempts = 0
        /\ pc = "done" => exitCode # 0

C9_Witness ==
    /\ pc = "done"
    /\ emailSet
    /\ ~passwordSet
    /\ exitCode = 1

TooFewDaysSeen == dayCount \in 0..(RequiredDayColumns - 1)

\* the scan went through every card of the column, none matched, and the
\* null check after the loop has run
NoCardMatched ==
    /\ cardLookups = 1
    /\ cardCount >= 0
    /\ cardIdx = cardCount
    /\ targetCard = 0
    /\ pc \notin {"scanCards", "checkCard"}

\* C10: with fewer than 7 day columns, or no matching card in the target
\* column, run fails at once with the not-found error: each lookup is made
\* once, the open wait and clickReserveAndFinish are never entered,
\* browser.close() is called, and the exit code is non-zero.
C10_NotFoundIsFatal ==
    (TooFewDaysSeen \/ NoCardMatched) =>
        /\ Ended
        /\ pc = "finally" => error = "notfound"
        /\ errorFrom \in {"countDays", "checkCard", "close"}
        /\ dayLookups = 1
        /\ cardLookups <= 1
        /\ TooFewDaysSeen => cardLookups = 0
        /\ attempts = 0 /\ polls = 0
        /\ openSleeps = 0 /\ openSpins = 0
        /\ NoRetryNoClick
        /\ pc \in {"rejected", "done"} => browser = "closed"
        /\ pc = "done" => exitCode # 0

C10_Witness ==
    /\ pc = "done"
    /\ cardCount = 2
    /\ cardIdx = 2
    /\ targetCard = 0
    /\ errorFrom = "checkCard"
    /\ browser = "closed"
    /\ exitCode = 1

(***************************************************************************)
(* cardMatches on its own, for any card text and list of criteria.         *)
(***************************************************************************)
RECURSIVE ListsUpTo(_, _)
ListsUpTo(items, n) ==
    IF n = 0 THEN {<<>>}
    ELSE LET shorter == ListsUpTo(items, n - 1)
         IN shorter \cup {Append(l, x) : l \in {t \in shorter : Len(t) = n - 1}, x \in items}

CriteriaLists == ListsUpTo(SeqsUpTo(MaxCriterionLen), MaxCriteria)

Reverse(list) == [n \in 1..Len(list) |-> list[Len(list) + 1 - n]]

MatchInit ==
    /\ emailSet = TRUE
    /\ passwordSet = TRUE
    /\ useWaitUntilOpen = TRUE
    /\ openAt = 0
    /\ now = NoDate
    /\ targetWeekday = TARGET_WEEKDAY
    /\ openTime = OPEN_TIME
    /\ base = NoDate
    /\ classDate = NoDate
    /\ openAtDate = NoDate
    /\ openAgain = NoDate
    /\ matchText \in CardTexts
    /\ matchCriteria \in CriteriaLists
    /\ matchResult = FALSE
    /\ matchReversed = FALSE
    /\ pc = "match"
    /\ RunIdle

CallCardMatches ==
    /\ pc = "match"
    /\ matchResult' = cardMatches(matchText, matchCriteria)
    /\ matchReversed' = cardMatches(matchText, Reverse(matchCriteria))
    /\ pc' = "matched"
    /\ UNCHANGED <<env, plan, matchText, matchCriteria, runVars>>

MatchNext == CallCardMatches

MatchSpec == MatchInit /\ [][MatchNext]_vars

(***************************************************************************)
(* Claims about the planner.                                               *)
(***************************************************************************)
ClassDatePlanned == classDate # NoDate

\* C11: the class date computeTargetClassDate returns falls on the target
\* weekday, 7 to 13 days after now at now's time of day, and exactly 7 days
\* after now when now already falls on the target weekday.
C11_TargetClassDateInSecondWeek ==
    ClassDatePlanned =>
        /\ getDay(classDate) = targetWeekday
        /\ classDate.day - now.day \in LeadDays..(LeadDays + 6)
        /\ classDate.ms = now.ms
        /\ (getDay(now) = targetWeekday) <=> (classDate.day - now.day = LeadDays)

C11_Witness ==
    /\ ClassDatePlanned
    /\ getDay(now) = targetWeekday
    /\ classDate.day = now.day + LeadDays
    /\ getMonth(classDate) # getMonth(now)

\* C12: nextWeekdayOnOrAfter(d, w) is the earliest date on or after d whose
\* weekday is w: d advanced by (w - weekday(d) + 7) mod 7 days, which is in
\* 0..6, at d's time of day, and d itself when d already falls on w.
C12_NextWeekdayIsEarliest ==
    ClassDatePlanned =>
        LET advance == classDate.day - base.day
        IN /\ getDay(classDate) = targetWeekday
           /\ advance \in 0..6
           /\ advance = (targetWeekday - getDay(base) + 7) % 7
           /\ \A k \in 0..6 :
                 k < advance => getDay([base EXCEPT !.day = @ + k]) # targetWeekday
           /\ classDate.ms = base.ms
           /\ getDay(base) = targetWeekday => classDate = base

C12_Witness ==
    /\ ClassDatePlanned
    /\ classDate.day - base.day = 6
    /\ getFullYear(classDate) # getFullYear(base)

OpenTimePlanned == openAtDate # NoDate

OpenTimeMs == ((openTime.hour * 60 + openTime.minute) * 60 + openTime.second) * 1000

\* C13: computeOpenTimeForClass(classDate, h, m, s) is the day 8 days before
\* classDate at h:m:s.000 whatever classDate's time of day; a second call
\* returns the same date, and classDate is left as computeTargetClassDate
\* returned it.
C13_OpenTimeEightDaysBefore ==
    /\ OpenTimePlanned =>
          /\ openAtDate.day = classDate.day - OpenOffsetDays
          /\ openAtDate.ms = OpenTimeMs
          /\ classDate.ms = now.ms
          /\ getDay(classDate) = targetWeekday
          /\ classDate.day - base.day \in 0..6
    /\ openAgain # NoDate => openAgain = openAtDate

C13_Witness ==
    /\ openAgain # NoDate
    /\ openAgain = openAtDate
    /\ openAtDate.ms # classDate.ms
    /\ getMonth(openAtDate) # getMonth(classDate)
    /\ getDate(openAtDate) > getDate(classDate)

\* C14: the open instant planned at startup lies strictly before the start
\* of the class date's day, and the class date, the open date and the open
\* instant the run uses never change while the run goes on.
C14_WindowFixedAndOpenBeforeClass ==
    /\ [](MsBetween(openAtDate, [classDate EXCEPT !.ms = 0]) > 0)
    /\ [][UNCHANGED <<now, classDate, openAtDate, openAt>>]_vars

C14_Witness ==
    /\ outcome = "Reserved"
    /\ pc = "done"
    /\ MsBetween(openAtDate, [classDate EXCEPT !.ms = 0]) > 0
    /\ openAt = MsBetween(now, openAtDate)
    /\ clock > openAt

\* C15: the planner puts the open date on the day
\* now + ((targetWeekday - weekday(now) + 7) mod 7) - 1 at the open time: at
\* most 5 days after now, and the day before now exactly when now falls on
\* the target weekday. Sunday 2026-02-22 with a Monday class at 20:00:00 gives
\* the class date Monday 2026-03-02 and the open date Sunday 2026-02-22
\* 20:00:00; Friday 2026-02-13 gives Monday 2026-02-23 and Sunday 2026-02-15
\* 20:00:00.
C15_OpenDayFromNow ==
    OpenTimePlanned =>
        /\ openAtDate.day = now.day + ((targetWeekday - getDay(now) + 7) % 7) - 1
        /\ openAtDate.ms = OpenTimeMs
        /\ openAtDate.day <= now.day + 5
        /\ (openAtDate.day = now.day - 1) <=> (getDay(now) = targetWeekday)
        /\ (/\ CivilFromDays(now.day) = [year |-> 2026, month |-> 1, date |-> 22]
            /\ targetWeekday = 1
            /\ openTime = [hour |-> 20, minute |-> 0, second |-> 0])
           => /\ getDay(now) = 0
              /\ CivilFromDays(classDate.day) = [year |-> 2026, month |-> 2, date |-> 2]
              /\ CivilFromDays(openAtDate.day) = [year |-> 2026, month |-> 1, date |-> 22]
              /\ openAtDate.ms = 20 * 3600000
        /\ (/\ CivilFromDays(now.day) = [year |-> 2026, month |-> 1, date |-> 13]
            /\ targetWeekday = 1
            /\ openTime = [hour |-> 20, minute |-> 0, second |-> 0])
           => /\ getDay(now) = 5
              /\ CivilFromDays(classDate.day) = [year |-> 2026, month |-> 1, date |-> 23]
              /\ CivilFromDays(openAtDate.day) = [year |-> 2026, month |-> 1, date |-> 15]
              /\ openAtDate.ms = 20 * 3600000

C15_Witness ==
    /\ OpenTimePlanned
    /\ CivilFromDays(now.day) = [year |-> 2026, month |-> 1, date |-> 22]
    /\ targetWeekday = 1
    /\ openTime = [hour |-> 20, minute |-> 0, second |-> 0]
    /\ openAtDate.day = now.day

(***************************************************************************)
(* Claims about cardMatches.                                               *)
(***************************************************************************)
IsSubstring(s, text) ==
    \E from \in 1..(Len(text) + 1) :
        \E to \in (from - 1)..Len(text) : SubSeq(text, from, to) = s

\* C16: cardMatches(text, criteria) is true exactly when every criterion is a
\* substring of text: false as soon as one is missing, true for an empty
\* list, and the same for the criteria in any order.
C16_CardMatchesIsConjunction ==
    pc = "matched" =>
        /\ matchResult <=>
              \A n \in 1..Len(matchCriteria) : IsSubstring(matchCriteria[n], matchText)
        /\ (\E n \in 1..Len(matchCriteria) : ~IsSubstring(matchCriteria[n], matchText))
              => ~matchResult
        /\ matchCriteria = <<>> => matchResult
        /\ matchReversed = matchResult

C16_Witness ==
    /\ pc = "matched"
    /\ Len(matchCriteria) = 2
    /\ matchCriteria[1] # matchCriteria[2]
    /\ Len(matchCriteria[1]) = 2
    /\ Len(matchCriteria[2]) = 2
    /\ matchResult
    /\ matchReversed

(***************************************************************************)
(* Claims about the two waits of run().                                    *)
(***************************************************************************)
ReadyWaitOver == pc \notin {"checkCredentials", "readyWait", "rejected", "done"}

OpenWaitOver == attempts > 0

\* the wait protocol as one wait's observations show it: no sleep when the
\* target had passed, a sleep of remaining - SpinGuardMs exactly when
\* remaining > SpinThresholdMs, and release at or after the target
FollowsProtocol(remaining, sleeps, sleepMs, target, releasedAt) ==
    /\ remaining <= SpinThresholdMs => sleeps = 0
    /\ remaining > SpinThresholdMs => (sleeps = 1 /\ sleepMs = remaining - SpinGuardMs)
    /\ releasedAt >= target

\* C17 as stated, for the runs that wait at all (USE_WAIT_UNTIL_OPEN on):
\* both the wait to readyAt and the wait to openAt follow the wait protocol:
\* no sleep when the target has passed, a sleep of remaining - 200 ms only
\* when remaining > 400 ms, then a busy wait, and release at an instant >=
\* the target.
C17_BothWaitsFollowProtocol ==
    useWaitUntilOpen =>
        /\ pc = "launch" =>
              FollowsProtocol(msToReady, readySleeps, readySleepMs, readyAt, clock)
        /\ pc = "attempt" =>
              FollowsProtocol(msToOpen, openSleeps, openSleepMs, openAt, clock)

\* C17 amended: with USE_WAIT_UNTIL_OPEN on, the wait to openAt follows the
\* wait protocol and the busy wait never sleeps; the wait to readyAt is one
\* sleep of the whole remaining time whenever that is positive, with no
\* guard and no busy wait, and none when readyAt has passed; both release at
\* an instant >= their target. With the flag off there is no wait at all.
C17_OpenWaitFollowsProtocolReadyWaitSleeps ==
    /\ [](useWaitUntilOpen =>
            /\ pc = "attempt" =>
                  FollowsProtocol(msToOpen, openSleeps, openSleepMs, openAt, clock)
            /\ pc = "attempt" /\ msToOpen <= 0 => openSpins = 0
            /\ pc = "launch" =>
                  /\ msToReady = readyAt
                  /\ msToReady <= 0 => readySleeps = 0
                  /\ msToReady > 0 => (readySleeps = 1 /\ readySleepMs = msToReady)
                  /\ openSpins = 0
                  /\ clock >= readyAt)
    /\ [](~useWaitUntilOpen => (readySleeps = 0 /\ openSleeps = 0 /\ openSpins = 0))
    /\ [][pc = "openSpin" => UNCHANGED <<readySleeps, openSleeps>>]_vars
    /\ [][pc \notin {"readyWait", "openSleep", "openSpin"} =>
             UNCHANGED <<readySleeps, openSleeps, openSpins>>]_vars

C17_Witness ==
    /\ pc = "attempt"
    /\ useWaitUntilOpen
    /\ readySleeps = 1
    /\ readySleepMs = readyAt
    /\ openSleeps = 1
    /\ openSleepMs = msToOpen - SpinGuardMs
    /\ openSpins > 0
    /\ clock >= openAt

(***************************************************************************)
(* Claims about the polling loop of clickReserveAndFinish.                 *)
(***************************************************************************)
\* the positions inside an iteration after its reserve probe
AfterReserveProbe ==
    pc \in {"waitlistProbe", "reserveClick", "finishWait", "finishClick", "retrySleep"}

\* C18: a poll that finds neither the reserve control nor the waitlist
\* indicator is followed by exactly one retry sleep and then exactly one
\* reload before the next deadline check, so the k-th poll is preceded by k-1
\* sleeps and k-1 reloads; the reserve control is clicked once, after the
\* k-1 sleeps and reloads of the polls before it, and a finish click that
\* succeeds gives the outcome Reserved.
C18_OneSleepOneReloadPerEmptyPoll ==
    /\ [](/\ pc \in {"loopTest", "reserveProbe"} =>
               (retrySleeps = polls /\ reloads = polls)
          /\ AfterReserveProbe =>
               (retrySleeps = polls - 1 /\ reloads = polls - 1)
          /\ pc = "reload" => (retrySleeps = polls /\ reloads = polls - 1)
          /\ reserveClicks <= 1
          /\ reserveClicks = 1 =>
               (lastReserve = "visible" /\ retrySleeps = polls - 1 /\ reloads = polls - 1))
    /\ [][/\ (pc = "waitlistProbe" /\ lastWaitlist' # "visible") => pc' = "retrySleep"
          /\ pc = "retrySleep" => pc' = "reload"
          /\ pc = "reload" => pc' = "loopTest"
          /\ (pc = "finishClick" /\ pc' = "postWait") => outcome' = "Reserved"]_vars

C18_Witness ==
    /\ pc = "postWait"
    /\ polls = 3
    /\ retrySleeps = 2
    /\ reloads = 2
    /\ reserveClicks = 1
    /\ finishClicks = 1
    /\ outcome = "Reserved"

\* C20: in an iteration the reserve control is probed first and the waitlist
\* indicator only after a reserve probe that returned false or failed; when
\* the page shows both and the reserve probe sees its control, the reserve
\* control is clicked and Waitlisted is never reported; Waitlisted is
\* reported only in an iteration whose reserve probe returned false or failed.
C20_ReserveBeforeWaitlist ==
    /\ [](/\ pc = "waitlistProbe" => lastReserve \in {"hidden", "failed"}
          /\ outcome = "Waitlisted" =>
                /\ lastReserve \in {"hidden", "failed"}
                /\ lastWaitlist = "visible"
                /\ reserveShown => lastReserve = "failed"
                /\ reserveClicks = 0
          /\ reserveClicks > 0 => outcome # "Waitlisted")
    /\ [][/\ pc' = "waitlistProbe" => (pc = "reserveProbe" /\ lastReserve' # "visible")
          /\ lastWaitlist' # lastWaitlist => pc = "waitlistProbe"
          /\ (pc = "reserveProbe" /\ lastReserve' = "visible") =>
                (pc' = "reserveClick" /\ UNCHANGED <<lastWaitlist, outcome>>)
          /\ (outcome # "Waitlisted" /\ outcome' = "Waitlisted") =>
                (pc = "waitlistProbe" /\ lastReserve \in {"hidden", "failed"})]_vars

C20_Witness ==
    /\ pc = "reserveClick"
    /\ reserveShown
    /\ waitlistShown
    /\ lastReserve = "visible"
    /\ polls = 2
    /\ lastWaitlist = "hidden"
    /\ outcome = "none"

InAttempt ==
    pc \in {"loopTest", "reserveProbe", "reserveClick", "finishWait", "finishClick",
            "waitlistProbe", "retrySleep", "reload"}

EndsReserved == pc = "postWait" /\ outcome = "Reserved" /\ error = "none"

EndsWaitlisted == pc = "postWait" /\ outcome = "Waitlisted" /\ error = "none"

EndsTimedOut ==
    /\ pc = "finally"
    /\ outcome = "TimedOut"
    /\ error = "timeout"
    /\ errorFrom = "loopTest"

EndsInStepError ==
    /\ pc = "finally"
    /\ outcome = "none"
    /\ error = "surface"
    /\ errorFrom \in {"reserveClick", "finishWait", "finishClick"}

Endings ==
    {k \in {"Reserved", "Waitlisted", "TimedOut", "StepError"} :
        \/ k = "Reserved" /\ EndsReserved
        \/ k = "Waitlisted" /\ EndsWaitlisted
        \/ k = "TimedOut" /\ EndsTimedOut
        \/ k = "StepError" /\ EndsInStepError}

\* C19: when every call returns or fails in finite time and the clock
\* advances, clickReserveAndFinish, once entered, ends; it ends in exactly
\* one of four ways (return after the finish click, return on the waitlist
\* indicator, the timeout error, an error of the reserve click or the finish
\* step), an outcome is set only by ending, and after the end there is no
\* further probe, click, sleep or reload.
C19_AttemptEndsOnceInOneWay ==
    /\ (attempts > 0) ~> AttemptEnded
    /\ [](outcome # "none" => AttemptEnded)
    /\ [][(InAttempt /\ ~InAttempt') => Cardinality(Endings') = 1]_vars
    /\ [][AttemptEnded =>
             /\ ~InAttempt'
             /\ UNCHANGED <<attempts, polls, lastReserve, lastWaitlist, retrySleeps,
                            reloads, lastReload, reserveClicks, finishClicks,
                            finishSeen, outcome>>]_vars

C19_Witness ==
    /\ AttemptEnded
    /\ pc = "done"
    /\ outcome = "TimedOut"
    /\ polls = 3
    /\ retrySleeps = 3
    /\ reloads = 3

====
